---- MODULE Spec2Model ----
(***************************************************************************)
(* Model of auto-lecture-split: the timestamp parser, the alignment of     *)
(* transcript segments with slide intervals, and the command pipeline with *)
(* its file-existence caching.                                             *)
(*                                                                         *)
(* Representation.  A Python str is a sequence of one-character strings.   *)
(* A float number of seconds is held in fixed point, as the record         *)
(* [s |-> whole seconds, us |-> microseconds below one second], so 62.5 is *)
(* [s |-> 62, us |-> 500000].  A FrameTimecode is a frame number at Fps    *)
(* frames per second.                                                      *)
(***************************************************************************)
EXTENDS Integers, Sequences, FiniteSets, TLC

VARIABLES
    \* ---- time_to_seconds, applied to two inputs ----
    time_a, time_b,        \* the two time_str arguments
    sec_a, sec_b,          \* the two results ("unset" before the call)
    \* ---- align_transcription_with_slides, applied to one input ----
    transcriptions,        \* the list of segments handed in
    slide_times,           \* the list of (start, end) FrameTimecode pairs
    df,                    \* what video_processing.align... returned
    df_vf,                 \* what video_file.align... returned
    \* ---- the commands of cli.py ----
    cmd,                   \* the command that is running, "none" between runs
    pc,                    \* the statement the command is at
    run,                   \* the number of runs started
    opts,                  \* [suffix, overwrite] of the run
    files,                 \* output file -> whether it exists
    vtt,                   \* subtitle directory -> the cues of its .vtt file
    written,               \* the files written so far in this run
    calls,                 \* invocations of the external collaborators in this run
    local,                 \* the local variables of the command
    exc,                   \* the exception that ended the run, "none" if none
    prev,                  \* what the previous run returned and produced
    called                 \* a call of detect_slide_changes on its own

vars == <<time_a, time_b, sec_a, sec_b, transcriptions, slide_times, df, df_vf,
          cmd, pc, run, opts, files, vtt, written, calls, local, exc, prev, called>>

-----------------------------------------------------------------------------
(* Strings *)

Digit == {"0", "1", "2", "3", "4", "5", "6", "7", "8", "9"}

DigitVal(c) ==
    CASE c = "0" -> 0 [] c = "1" -> 1 [] c = "2" -> 2 [] c = "3" -> 3
      [] c = "4" -> 4 [] c = "5" -> 5 [] c = "6" -> 6 [] c = "7" -> 7
      [] c = "8" -> 8 [] c = "9" -> 9

DigitChar(n) ==
    CASE n = 0 -> "0" [] n = 1 -> "1" [] n = 2 -> "2" [] n = 3 -> "3"
      [] n = 4 -> "4" [] n = 5 -> "5" [] n = 6 -> "6" [] n = 7 -> "7"
      [] n = 8 -> "8" [] n = 9 -> "9"

\* int(s) of a string of decimal digits
RECURSIVE IntOf(_)
IntOf(s) ==
    IF Len(s) = 0 THEN 0
    ELSE 10 * IntOf(SubSeq(s, 1, Len(s) - 1)) + DigitVal(s[Len(s)])

\* s padded on the right with "0" up to n characters
RECURSIVE PadRight(_, _)
PadRight(s, n) == IF Len(s) >= n THEN s ELSE PadRight(Append(s, "0"), n)

AllDigits(s) == \A i \in 1..Len(s) : s[i] \in Digit

\* str.strip() removes these from both ends
Whitespace == {" ", "\n", "\t"}

RECURSIVE lstrip(_)
lstrip(s) ==
    IF Len(s) > 0 /\ s[1] \in Whitespace THEN lstrip(Tail(s)) ELSE s

RECURSIVE rstrip(_)
rstrip(s) ==
    IF Len(s) > 0 /\ s[Len(s)] \in Whitespace
    THEN rstrip(SubSeq(s, 1, Len(s) - 1)) ELSE s

strip_keeps_leading(s) == rstrip(s)

strip(s) == lstrip(rstrip(s))

-----------------------------------------------------------------------------
(* time_to_seconds: datetime.strptime(time_str, '%H:%M:%S.%f') and the sum  *)
(* of its fields, in microseconds.                                          *)

MicrosPerSecond == 1000000
FracWidth == 6

\* strptime accepts the string: two-digit fields, ':' ':' '.' separators,
\* one to six fractional digits, and field values a datetime can hold.
StrptimeOk(s) ==
    /\ Len(s) >= 10
    /\ Len(s) <= 9 + FracWidth
    /\ s[3] = ":" /\ s[6] = ":" /\ s[9] = "."
    /\ AllDigits(SubSeq(s, 1, 2))
    /\ AllDigits(SubSeq(s, 4, 5))
    /\ AllDigits(SubSeq(s, 7, 8))
    /\ AllDigits(SubSeq(s, 10, Len(s)))
    /\ IntOf(SubSeq(s, 1, 2)) <= 23
    /\ IntOf(SubSeq(s, 4, 5)) <= 59
    /\ IntOf(SubSeq(s, 7, 8)) <= 59

\* %f: the digits are padded on the right to six and read as microseconds
microsecond(s) == IntOf(PadRight(SubSeq(s, 10, Len(s)), FracWidth))

\* a number of seconds, and the comparisons the code makes on them
Seconds(whole, micros) ==
    [s  |-> whole + micros \div MicrosPerSecond,
     us |-> micros % MicrosPerSecond]

Lt(x, y) == x.s < y.s \/ (x.s = y.s /\ x.us < y.us)
Le(x, y) == x.s < y.s \/ (x.s = y.s /\ x.us <= y.us)

\* the fractional digits read as an integer without the padding of %f
time_to_seconds_unpadded(time_str) ==
    Seconds(IntOf(SubSeq(time_str, 1, 2)) * 3600
              + IntOf(SubSeq(time_str, 4, 5)) * 60
              + IntOf(SubSeq(time_str, 7, 8)),
            IntOf(SubSeq(time_str, 10, Len(time_str))))

\* the value returned when strptime accepts time_str
time_to_seconds(time_str) ==
    Seconds(IntOf(SubSeq(time_str, 1, 2)) * 3600
              + IntOf(SubSeq(time_str, 4, 5)) * 60
              + IntOf(SubSeq(time_str, 7, 8)),
            microsecond(time_str))

\* a call of time_to_seconds: the value, or the ValueError of strptime
time_to_seconds_call(time_str) ==
    IF StrptimeOk(time_str)
    THEN [exc |-> "none", value |-> time_to_seconds(time_str)]
    ELSE [exc |-> "ValueError", value |-> Seconds(0, 0)]

Unset == [exc |-> "unset", value |-> Seconds(0, 0)]

-----------------------------------------------------------------------------
(* scenedetect.FrameTimecode, as the alignment uses it *)

Fps == 10

\* FrameTimecode.get_seconds(): frame number / frame rate (microseconds)
get_seconds(tc) == Seconds(tc \div Fps, ((tc % Fps) * MicrosPerSecond) \div Fps)

TwoDigits(n) == <<DigitChar((n \div 10) % 10), DigitChar(n % 10)>>

ThreeDigits(n) ==
    <<DigitChar((n \div 100) % 10), DigitChar((n \div 10) % 10), DigitChar(n % 10)>>

\* FrameTimecode.get_timecode(): 'HH:MM:SS.nnn', milliseconds rounded
get_timecode(tc) ==
    LET ms   == (get_seconds(tc).us + 500) \div 1000
        secs == get_seconds(tc).s + ms \div 1000
    IN  TwoDigits(secs \div 3600) \o <<":">> \o TwoDigits((secs \div 60) % 60)
        \o <<":">> \o TwoDigits(secs % 60) \o <<".">> \o ThreeDigits(ms % 1000)

-----------------------------------------------------------------------------
(* align_transcription_with_slides *)

\* A segment is [shape, start, end, text]: shape "tuple" is the
\* (start, end, text) tuple transcribe_audio returns, shape "dict" the
\* {'start', 'end', 'text'} dict the commands build from it.
Tuple(s, e, t) == [shape |-> "tuple", start |-> s, end |-> e, text |-> t]
Dict(s, e, t)  == [shape |-> "dict", start |-> s, end |-> e, text |-> t]

\* bisect.bisect_right(a, x), on 0-based positions
RECURSIVE bisect_loop(_, _, _, _)
bisect_loop(a, x, lo, hi) ==
    IF lo < hi
    THEN LET mid == (lo + hi) \div 2
         IN  IF Lt(x, a[mid + 1]) THEN bisect_loop(a, x, lo, mid)
             ELSE bisect_loop(a, x, mid + 1, hi)
    ELSE lo

RECURSIVE bisect_left_loop(_, _, _, _)
bisect_left_loop(a, x, lo, hi) ==
    IF lo < hi
    THEN LET mid == (lo + hi) \div 2
         IN  IF Le(x, a[mid + 1]) THEN bisect_left_loop(a, x, lo, mid)
             ELSE bisect_left_loop(a, x, mid + 1, hi)
    ELSE lo

bisect_left(a, x) == bisect_left_loop(a, x, 0, Len(a))

bisect_right(a, x) == bisect_loop(a, x, 0, Len(a))

\* the condition of the if: idx is 0-based, n is len(data)
slide_contains_closed(starts, ends, n, idx, start_time) ==
    /\ idx >= 0
    /\ idx < n
    /\ Le(starts[idx + 1], start_time)
    /\ Le(start_time, ends[idx + 1])

slide_contains_open_start(starts, ends, n, idx, start_time) ==
    /\ idx >= 0
    /\ idx < n
    /\ Lt(starts[idx + 1], start_time)
    /\ Lt(start_time, ends[idx + 1])

\* the end of the interval not looked at
slide_contains_no_end(starts, ends, n, idx, start_time) ==
    /\ idx >= 0
    /\ idx < n
    /\ Le(starts[idx + 1], start_time)

slide_contains(starts, ends, n, idx, start_time) ==
    /\ idx >= 0
    /\ idx < n
    /\ Le(starts[idx + 1], start_time)
    /\ Lt(start_time, ends[idx + 1])

\* the text appended for one segment
appended_text_no_space(text) == text

appended_text(text) == text \o <<" ">>

\* One pass of the body of the for loop.  st is [data, hit]: data the list
\* of rows, hit[k] the set of rows (1-based) segment k was appended to.
assign_step(st, starts, ends, start_time, text) ==
    LET idx == bisect_right(starts, start_time) - 1
    IN  IF slide_contains(starts, ends, Len(st.data), idx, start_time)
        THEN [data |-> [st.data EXCEPT ![idx + 1].text = @ \o appended_text(text)],
              hit  |-> Append(st.hit, {idx + 1})]
        ELSE [data |-> st.data, hit |-> Append(st.hit, {})]

RECURSIVE assign_loop(_, _, _, _, _)
assign_loop(st, starts, ends, trans, k) ==
    IF k > Len(trans) THEN st
    ELSE assign_loop(assign_step(st, starts, ends, trans[k][1], trans[k][3]),
                     starts, ends, trans, k + 1)

\* the exception the conversion of the segments raises, "none" if none:
\* seg[0] on a dict is a KeyError, strptime on a bad string a ValueError
RECURSIVE convert_exc(_, _)
convert_exc(trans, k) ==
    IF k > Len(trans) THEN "none"
    ELSE IF trans[k].shape = "dict" THEN "KeyError"
    ELSE IF ~StrptimeOk(trans[k].start) \/ ~StrptimeOk(trans[k].end) THEN "ValueError"
    ELSE convert_exc(trans, k + 1)

\* the list of (seconds, seconds, text) tuples
converted(trans) ==
    [k \in 1..Len(trans) |->
        <<time_to_seconds(trans[k].start), time_to_seconds(trans[k].end), trans[k].text>>]

Raised(e) == [exc |-> e, rows |-> <<>>, hit |-> <<>>]

\* df['text'] = df['text'].str.strip()
strip_rows(data) == [i \in 1..Len(data) |-> [data[i] EXCEPT !.text = strip(@)]]

to_frame_drop_empty(st) ==
    IF Len(st.data) = 0 THEN Raised("KeyError")
    ELSE [exc  |-> "none",
          rows |-> SelectSeq(strip_rows(st.data), LAMBDA r : r.text # <<>>),
          hit  |-> st.hit]

\* pd.DataFrame(data) and the strip of its text column; a frame built from
\* an empty list has no 'text' column
to_frame(st) ==
    IF Len(st.data) = 0 THEN Raised("KeyError")
    ELSE [exc |-> "none", rows |-> strip_rows(st.data), hit |-> st.hit]

\* video_processing.py: rows carry timecode strings, the ends are kept in a
\* separate list
align_transcription_with_slides(trans, slides) ==
    IF convert_exc(trans, 1) # "none" THEN Raised(convert_exc(trans, 1))
    ELSE
      LET starts == [i \in 1..Len(slides) |-> get_seconds(slides[i][1])]
          ends   == [i \in 1..Len(slides) |-> get_seconds(slides[i][2])]
          data   == [i \in 1..Len(slides) |->
                        [start |-> get_timecode(slides[i][1]),
                         end   |-> get_timecode(slides[i][2]),
                         text  |-> <<>>]]
      IN  to_frame(assign_loop([data |-> data, hit |-> <<>>],
                               starts, ends, converted(trans), 1))

\* the start of the row read where its end is meant
align_transcription_with_slides_vf_start(trans, slides) ==
    IF convert_exc(trans, 1) # "none" THEN Raised(convert_exc(trans, 1))
    ELSE
      LET starts == [i \in 1..Len(slides) |-> get_seconds(slides[i][1])]
          data   == [i \in 1..Len(slides) |->
                        [start |-> get_seconds(slides[i][1]),
                         end   |-> get_seconds(slides[i][2]),
                         text  |-> <<>>]]
          ends   == [i \in 1..Len(data) |-> data[i].start]
      IN  to_frame(assign_loop([data |-> data, hit |-> <<>>],
                               starts, ends, converted(trans), 1))

\* video_file.py: rows carry seconds, the end is read back from the row
align_transcription_with_slides_vf(trans, slides) ==
    IF convert_exc(trans, 1) # "none" THEN Raised(convert_exc(trans, 1))
    ELSE
      LET starts == [i \in 1..Len(slides) |-> get_seconds(slides[i][1])]
          data   == [i \in 1..Len(slides) |->
                        [start |-> get_seconds(slides[i][1]),
                         end   |-> get_seconds(slides[i][2]),
                         text  |-> <<>>]]
          ends   == [i \in 1..Len(data) |-> data[i].end]
      IN  to_frame(assign_loop([data |-> data, hit |-> <<>>],
                               starts, ends, converted(trans), 1))

-----------------------------------------------------------------------------
(* Inputs *)

\* 'HH:MM:SS.f...' written from its fields; frac is the string of
\* fractional digits
MkTimeStr(h, m, s, frac) ==
    TwoDigits(h) \o <<":">> \o TwoDigits(m) \o <<":">> \o TwoDigits(s)
    \o <<".">> \o frac

HourFields   == {0, 23, 24}
MinuteFields == {1, 59}
SecondFields == {2, 59}
FracFields   == { <<"5">>, <<"5", "0">>, <<"5", "0", "0", "0", "0", "0">>,
                  <<"0", "0", "0", "0", "0", "1">>,
                  <<"9", "9", "9", "9", "9", "9">> }

TimeFields == HourFields \X MinuteFields \X SecondFields \X FracFields

TimeStrings == { MkTimeStr(f[1], f[2], f[3], f[4]) : f \in TimeFields }

NotRun == [exc |-> "unset", rows |-> <<>>, hit |-> <<>>]

MaxSlides == 3
MaxSegs == 3

\* frame numbers at which a slide may start or end (0 s, 10 s, 25 s, 30 s)
SlideBounds == {0, 100, 250, 300}

Intervals == { iv \in SlideBounds \X SlideBounds : iv[1] < iv[2] }

SeqsUpTo(S, n) == UNION { [1..k -> S] : k \in 0..n }

\* what the detector returns: ascending and non-overlapping
Ascending(sl) == \A i \in 1..(Len(sl) - 1) : sl[i][2] <= sl[i + 1][1]

SlideLists == { sl \in SeqsUpTo(Intervals, MaxSlides) : Ascending(sl) }

Millis000 == <<"0", "0", "0">>
Millis900 == <<"9", "0", "0">>

SegStarts == { MkTimeStr(0, 0, 2, Millis000), MkTimeStr(0, 0, 10, Millis000),
               MkTimeStr(0, 0, 24, Millis900), MkTimeStr(0, 0, 25, Millis000) }

SegEnd == MkTimeStr(0, 0, 30, Millis000)

\* a plain text and one that begins with a space, at every start; an empty
\* text at one start
SegTexts == { <<"A">>, <<" ", "B">> }

Segments ==
    { Tuple(s, SegEnd, t) : s \in SegStarts, t \in SegTexts }
    \cup { Tuple(MkTimeStr(0, 0, 2, Millis000), SegEnd, <<>>) }

SegLists == SeqsUpTo(Segments, MaxSegs)

\* the example of the specification
ExampleSlides == << <<0, 100>>, <<100, 250>> >>

ExampleSegs ==
    << Tuple(MkTimeStr(0, 0, 2, Millis000), SegEnd, <<"A">>),
       Tuple(MkTimeStr(0, 0, 10, Millis000), SegEnd, <<"B">>),
       Tuple(MkTimeStr(0, 0, 24, Millis900), SegEnd, <<"C">>),
       Tuple(MkTimeStr(0, 0, 25, Millis000), SegEnd, <<"D">>) >>

-----------------------------------------------------------------------------
(* The external collaborators and the functions that wrap them *)

MaxRuns == 2

\* the files the commands write under output/ (and beside the input); the
\* two .vtt files are named by their directory
SubtitleDirs == {"transcription_video_file", "transcription_audio_file"}

OutputFiles == {"mp4", "wav", "txt_video", "json_video", "txt_audio",
                "json_audio", "stats", "csv_video", "csv_audio"} \cup SubtitleDirs

NoCalls == [ffmpeg |-> 0, load_model |-> 0, transcribe |-> 0, detect |-> 0]

\* subprocess.run([... ffmpeg ...], check=True): the tool writes out, or
\* fails with or without leaving a file behind
FfmpegOutcomes == {"ok", "fail", "fail_partial"}

ffmpeg(fl, out, outcome) ==
    [files |-> IF outcome = "fail" THEN fl ELSE [fl EXCEPT ![out] = TRUE],
     wrote |-> IF outcome = "fail" THEN {} ELSE {out},
     exc   |-> IF outcome = "ok" THEN "none" ELSE "CalledProcessError",
     ran   |-> 1]

NotInvoked(fl) == [files |-> fl, wrote |-> {}, exc |-> "none", ran |-> 0]

\* the existence test left out
convert_to_mp4_always(suffix, overwrite, fl, outcome) ==
    IF suffix = ".mkv"
    THEN [ret |-> "mp4"] @@ ffmpeg(fl, "mp4", outcome)
    ELSE [ret |-> "input"] @@ NotInvoked(fl)

\* video.py convert_to_mp4; ret is the path returned
convert_to_mp4(suffix, overwrite, fl, outcome) ==
    IF suffix = ".mkv"
    THEN IF ~overwrite /\ fl["mp4"]
         THEN [ret |-> "mp4"] @@ NotInvoked(fl)
         ELSE [ret |-> "mp4"] @@ ffmpeg(fl, "mp4", outcome)
    ELSE [ret |-> "input"] @@ NotInvoked(fl)

\* audio.py convert_to_wav
convert_to_wav(suffix, overwrite, fl, outcome) ==
    IF suffix \in {".mp3", ".m4a"}
    THEN IF ~overwrite /\ fl["wav"]
         THEN [ret |-> "wav"] @@ NotInvoked(fl)
         ELSE [ret |-> "wav"] @@ ffmpeg(fl, "wav", outcome)
    ELSE [ret |-> "wav"] @@ NotInvoked(fl)

\* audio.py extract_audio
extract_audio(overwrite, fl, outcome) ==
    IF ~overwrite /\ fl["wav"]
    THEN [ret |-> "wav"] @@ NotInvoked(fl)
    ELSE [ret |-> "wav"] @@ ffmpeg(fl, "wav", outcome)

\* What model.transcribe may return: segments with float seconds and the
\* text as the model emits it (a leading space is usual)
WhisperSeg(s, e, t) == [start |-> s, end |-> e, text |-> t]

WhisperResults ==
    { <<>>,
      << WhisperSeg(Seconds(2, 0), Seconds(10, 0), <<" ", "A">>) >>,
      << WhisperSeg(Seconds(2, 0), Seconds(10, 0), <<" ", "B">>),
         WhisperSeg(Seconds(10, 0), Seconds(24, 900000), <<" ", "C">>) >> }

\* whisper.utils.format_timestamp as WriteVTT calls it: milliseconds, the
\* hours written only when they are not zero
format_timestamp(x) ==
    LET ms == (x.us + 500) \div 1000
        secs == x.s + ms \div 1000
        hours_marker == IF secs \div 3600 > 0
                        THEN TwoDigits(secs \div 3600) \o <<":">> ELSE <<>>
    IN  hours_marker \o TwoDigits((secs \div 60) % 60) \o <<":">>
        \o TwoDigits(secs % 60) \o <<".">> \o ThreeDigits(ms % 1000)

\* get_writer('vtt', ...).write_result(result, file): the cues of the file
write_vtt(result) ==
    [k \in 1..Len(result) |->
        [start |-> format_timestamp(result[k].start),
         end   |-> format_timestamp(result[k].end),
         text  |-> strip(result[k].text)]]

\* Caption.start / Caption.end of webvtt: always 'HH:MM:SS.mmm'
caption_time(t) == IF Len(t) = 9 THEN <<"0", "0", ":">> \o t ELSE t

\* [(caption.start, caption.end, caption.text) for caption in webvtt.read(path)]
read_vtt(cues) ==
    [k \in 1..Len(cues) |->
        Tuple(caption_time(cues[k].start), caption_time(cues[k].end), cues[k].text)]

None == [none |-> TRUE, segments |-> <<>>]
Some(result) == [none |-> FALSE, segments |-> result]

ModelOutcomes == {"ok", "fail"}

\* audio_processing.py transcribe_audio.  exists and cues are the .vtt file
\* at transcription_path; result and outcome are what model.transcribe
\* does if it is invoked.  cues is the file after the call.
TranscribeFailed(cues) ==
    [exc |-> "RuntimeError", cues |-> cues, wrote |-> FALSE, segs |-> <<>>,
     res |-> None, ran |-> 1]

Transcribed(result, segs) ==
    [exc |-> "none", cues |-> write_vtt(result), wrote |-> TRUE, segs |-> segs,
     res |-> Some(result), ran |-> 1]

ReadBack(cues) ==
    [exc |-> "none", cues |-> cues, wrote |-> FALSE, segs |-> read_vtt(cues),
     res |-> None, ran |-> 0]

\* the existence test left out
transcribe_audio_no_cache(exists, cues, overwrite, result, outcome) ==
    IF outcome = "fail" THEN TranscribeFailed(cues)
    ELSE Transcribed(result, read_vtt(write_vtt(result)))

\* the cached file reused only when it is what the model would write now
transcribe_audio_fresh_only(exists, cues, overwrite, result, outcome) ==
    IF ~overwrite /\ exists /\ cues = write_vtt(result) THEN ReadBack(cues)
    ELSE IF outcome = "fail" THEN TranscribeFailed(cues)
    ELSE Transcribed(result, read_vtt(write_vtt(result)))

transcribe_audio(exists, cues, overwrite, result, outcome) ==
    IF ~overwrite /\ exists THEN ReadBack(cues)
    ELSE IF outcome = "fail" THEN TranscribeFailed(cues)
    ELSE Transcribed(result, read_vtt(write_vtt(result)))

\* cli.py DetectionMethod, and a name that is none of them
DetectionMethod == {"adaptive", "content", "threshold", "histogram", "hash"}
MethodNames == DetectionMethod \cup {"ssim"}

\* what scene_manager.get_scene_list() may hold after a detection
SceneLists == { <<>>, << <<0, 250>> >>, ExampleSlides }

\* scenedetect: the video opens and the detection succeeds, the detection
\* fails, or the video cannot be opened
DetectorOutcomes == {"ok", "fail", "open_fail"}

\* video_processing.py detect_slide_changes.  ran counts the calls of
\* detect_scenes, wrote tells whether the statistics file was saved.
Detected(scenes) == [exc |-> "none", ret |-> scenes, wrote |-> TRUE, ran |-> 1]

DetectRaised(e, ran) == [exc |-> e, ret |-> <<>>, wrote |-> FALSE, ran |-> ran]

\* the method name looked at only after the detection
detect_slide_changes_late_check(method, scenes, outcome) ==
    IF outcome = "open_fail" THEN DetectRaised("VideoOpenFailure", 0)
    ELSE IF outcome = "fail" THEN DetectRaised("RuntimeError", 1)
    ELSE IF method \notin DetectionMethod
    THEN [exc |-> "ValueError", ret |-> <<>>, wrote |-> TRUE, ran |-> 1]
    ELSE Detected(scenes)

detect_slide_changes(method, scenes, outcome) ==
    IF outcome = "open_fail" THEN DetectRaised("VideoOpenFailure", 0)
    ELSE IF method \notin DetectionMethod THEN DetectRaised("ValueError", 0)
    ELSE IF outcome = "fail" THEN DetectRaised("RuntimeError", 1)
    ELSE Detected(scenes)

-----------------------------------------------------------------------------
(* The two pure functions, each applied to inputs drawn at Init *)

timeVars  == <<time_a, time_b, sec_a, sec_b>>
alignVars == <<transcriptions, slide_times, df, df_vf>>
cliVars   == <<cmd, pc, run, opts, files, vtt, written, calls, local, exc, prev,
               called>>

NoOpts == [suffix |-> "", overwrite |-> FALSE]

\* the local variables before the command has assigned them
NoLocals ==
    [video_path     |-> "input",
     ret            |-> "",       \* what the last transcoding function returned
     initial_prompt |-> "unbound",
     segments       |-> <<>>,     \* what transcribe_audio returned
     returned       |-> FALSE,    \* transcribe_audio has returned
     trans_res      |-> None,
     transcriptions |-> <<>>,
     slide_changes  |-> <<>>,
     detected       |-> FALSE,    \* detect_slide_changes has returned
     table          |-> NotRun]

\* what is remembered of the run before
NoPrev == [cmd |-> "none", returned |-> FALSE, segments |-> <<>>,
           detected |-> FALSE, slide_changes |-> <<>>, table |-> NotRun]

NotCalled == [method |-> "", scenes |-> <<>>, outcome |-> "",
              exc |-> "unset", ret |-> <<>>]

CliIdle ==
    /\ cmd = "none" /\ pc = "idle" /\ run = 0
    /\ opts = NoOpts
    /\ files = [f \in OutputFiles |-> FALSE]
    /\ vtt = [d \in SubtitleDirs |-> <<>>]
    /\ written = {}
    /\ calls = NoCalls
    /\ local = NoLocals
    /\ exc = "none"
    /\ prev = NoPrev
    /\ called = NotCalled

TimeIdle ==
    /\ time_a = <<>> /\ time_b = <<>>
    /\ sec_a = Unset /\ sec_b = Unset

AlignIdle ==
    /\ transcriptions = <<>> /\ slide_times = <<>>
    /\ df = NotRun /\ df_vf = NotRun

InitTime ==
    /\ time_a \in TimeStrings
    /\ time_b \in TimeStrings
    /\ sec_a = Unset /\ sec_b = Unset
    /\ AlignIdle
    /\ CliIdle

TimeToSeconds ==
    /\ sec_a.exc = "unset"
    /\ sec_a' = time_to_seconds_call(time_a)
    /\ sec_b' = time_to_seconds_call(time_b)
    /\ UNCHANGED <<time_a, time_b, alignVars, cliVars>>

SpecTime == InitTime /\ [][TimeToSeconds]_vars

InitAlign ==
    /\ \/ transcriptions \in SegLists /\ slide_times \in SlideLists
       \/ transcriptions = ExampleSegs /\ slide_times = ExampleSlides
    /\ df = NotRun /\ df_vf = NotRun
    /\ TimeIdle
    /\ CliIdle

Align ==
    /\ df.exc = "unset"
    /\ df' = align_transcription_with_slides(transcriptions, slide_times)
    /\ df_vf' = align_transcription_with_slides_vf(transcriptions, slide_times)
    /\ UNCHANGED <<transcriptions, slide_times, timeVars, cliVars>>

SpecAlign == InitAlign /\ [][Align]_vars

-----------------------------------------------------------------------------
(* The commands of cli.py, one action per statement that calls out *)

Commands == {"split_video_file", "transcribe_video_file", "transcribe_audio_file"}
VideoCommands == {"split_video_file", "transcribe_video_file"}

Suffixes(c) == IF c \in VideoCommands THEN {".mkv", ".mp4"}
               ELSE {".mp3", ".m4a", ".wav"}

SubtitleDir(c) == IF c \in VideoCommands THEN "transcription_video_file"
                  ELSE "transcription_audio_file"

Init == TimeIdle /\ AlignIdle /\ CliIdle

pureVars == <<timeVars, alignVars>>

\* the exception e caught and the command carried on to its last step
Fail_caught(e) == pc' = "write" /\ exc' = e

\* the exception e ends the command
Fail(e) == pc' = "failed" /\ exc' = e

\* typer starts a command with its arguments
StartRun ==
    /\ pc = "idle"
    /\ run < MaxRuns
    /\ \E c \in Commands : \E sfx \in Suffixes(c) : \E ow \in BOOLEAN :
          /\ cmd' = c
          /\ opts' = [suffix |-> sfx, overwrite |-> ow]
    /\ run' = run + 1
    /\ pc' = "convert"
    /\ UNCHANGED <<files, vtt, written, calls, local, exc, prev, called, pureVars>>

\* cli.py:141-145, 283-287: the .mkv input is converted
ConvertVideo ==
    /\ pc = "convert" /\ cmd \in VideoCommands
    /\ IF opts.suffix = ".mkv"
       THEN \E outcome \in FfmpegOutcomes :
              LET r == convert_to_mp4(opts.suffix, opts.overwrite, files, outcome)
              IN  /\ files' = r.files
                  /\ written' = written \cup r.wrote
                  /\ calls' = [calls EXCEPT !.ffmpeg = @ + r.ran]
                  /\ IF r.exc = "none"
                     THEN /\ local' = [local EXCEPT !.video_path = r.ret,
                                                     !.ret = r.ret]
                          /\ pc' = "extract" /\ exc' = exc
                     ELSE Fail(r.exc) /\ local' = local
       ELSE /\ pc' = "extract"
            /\ UNCHANGED <<files, written, calls, local, exc>>
    /\ UNCHANGED <<cmd, run, opts, vtt, prev, called, pureVars>>

\* cli.py:381-386: the .mp3 or .m4a input is converted
ConvertAudio ==
    /\ pc = "convert" /\ cmd = "transcribe_audio_file"
    /\ IF opts.suffix \in {".mp3", ".m4a"}
       THEN \E outcome \in FfmpegOutcomes :
              LET r == convert_to_wav(opts.suffix, opts.overwrite, files, outcome)
              IN  /\ files' = r.files
                  /\ written' = written \cup r.wrote
                  /\ calls' = [calls EXCEPT !.ffmpeg = @ + r.ran]
                  /\ IF r.exc = "none"
                     THEN /\ local' = [local EXCEPT !.ret = r.ret]
                          /\ pc' = "prompt" /\ exc' = exc
                     ELSE Fail(r.exc) /\ local' = local
       ELSE /\ pc' = "prompt"
            /\ UNCHANGED <<files, written, calls, local, exc>>
    /\ UNCHANGED <<cmd, run, opts, vtt, prev, called, pureVars>>

\* cli.py:149-151, 291-293
ExtractAudio ==
    /\ pc = "extract"
    /\ \E outcome \in FfmpegOutcomes :
          LET r == extract_audio(opts.overwrite, files, outcome)
          IN  /\ files' = r.files
              /\ written' = written \cup r.wrote
              /\ calls' = [calls EXCEPT !.ffmpeg = @ + r.ran]
              /\ IF r.exc = "none"
                 THEN /\ local' = [local EXCEPT !.ret = r.ret]
                      /\ pc' = "prompt" /\ exc' = exc
                 ELSE Fail(r.exc) /\ local' = local
    /\ UNCHANGED <<cmd, run, opts, vtt, prev, called, pureVars>>

\* cli.py:156-158, 298-300, 391-393: initial_prompt is assigned only when
\* a prompt path was given
ReadPrompt ==
    /\ pc = "prompt"
    /\ \E initial_prompt_path \in {"", "prompt.txt"} :
          local' = [local EXCEPT !.initial_prompt =
                       IF initial_prompt_path # "" THEN "read" ELSE "unbound"]
    /\ pc' = "transcribe"
    /\ UNCHANGED <<cmd, run, opts, files, vtt, written, calls, exc, prev, called,
                   pureVars>>

\* cli.py:159-170, 301-312, 394-405
Transcribe ==
    /\ pc = "transcribe"
    /\ IF local.initial_prompt = "unbound"
       THEN /\ Fail("UnboundLocalError")
            /\ UNCHANGED <<files, vtt, written, calls, local>>
       ELSE \E result \in WhisperResults : \E outcome \in ModelOutcomes :
              LET d == SubtitleDir(cmd)
                  r == transcribe_audio(files[d], vtt[d], opts.overwrite, result,
                                        outcome)
              IN  /\ vtt' = [vtt EXCEPT ![d] = r.cues]
                  /\ files' = [files EXCEPT ![d] = @ \/ r.wrote]
                  /\ written' = IF r.wrote THEN written \cup {d} ELSE written
                  /\ calls' = [calls EXCEPT !.load_model = @ + 1,
                                            !.transcribe = @ + r.ran]
                  /\ IF r.exc = "none"
                     THEN /\ local' = [local EXCEPT !.segments = r.segs,
                                                     !.returned = TRUE,
                                                     !.transcriptions = r.segs,
                                                     !.trans_res = r.res]
                          /\ pc' = "write_transcripts" /\ exc' = exc
                     ELSE Fail(r.exc) /\ local' = local
    /\ UNCHANGED <<cmd, run, opts, prev, called, pureVars>>

\* the names of the text and JSON transcripts of a command
TxtFile(c)  == IF c \in VideoCommands THEN "txt_video" ELSE "txt_audio"
JsonFile(c) == IF c \in VideoCommands THEN "json_video" ELSE "json_audio"

as_dicts(segs) ==
    [k \in 1..Len(segs) |-> Dict(segs[k].start, segs[k].end, segs[k].text)]

\* the .txt and .json transcripts written whether the model ran or not
WriteTranscripts_always ==
    /\ pc = "write_transcripts"
    /\ files' = [files EXCEPT ![TxtFile(cmd)] = TRUE, ![JsonFile(cmd)] = TRUE]
    /\ written' = written \cup {TxtFile(cmd), JsonFile(cmd)}
    /\ local' = [local EXCEPT !.transcriptions = as_dicts(@)]
    /\ pc' = CASE cmd = "split_video_file" -> "detect"
               [] cmd = "transcribe_video_file" -> "done"
               [] cmd = "transcribe_audio_file" -> "table"
    /\ UNCHANGED <<cmd, run, opts, vtt, calls, exc, prev, called, pureVars>>

\* cli.py:172-184, 314-326, 407-419: the .txt and .json transcripts are
\* written when the model ran, and the segments become dicts
WriteTranscripts ==
    /\ pc = "write_transcripts"
    /\ IF local.trans_res.none
       THEN UNCHANGED <<files, written>>
       ELSE /\ files' = [files EXCEPT ![TxtFile(cmd)] = TRUE,
                                      ![JsonFile(cmd)] = TRUE]
            /\ written' = written \cup {TxtFile(cmd), JsonFile(cmd)}
    /\ local' = [local EXCEPT !.transcriptions = as_dicts(@)]
    /\ pc' = CASE cmd = "split_video_file" -> "detect"
               [] cmd = "transcribe_video_file" -> "done"
               [] cmd = "transcribe_audio_file" -> "table"
    /\ UNCHANGED <<cmd, run, opts, vtt, calls, exc, prev, called, pureVars>>

\* cli.py:186-195
DetectSlides ==
    /\ pc = "detect"
    /\ \E method \in DetectionMethod : \E scenes \in SceneLists :
       \E outcome \in DetectorOutcomes :
          LET r == detect_slide_changes(method, scenes, outcome)
          IN  /\ files' = [files EXCEPT !["stats"] = @ \/ r.wrote]
              /\ written' = IF r.wrote THEN written \cup {"stats"} ELSE written
              /\ calls' = [calls EXCEPT !.detect = @ + r.ran]
              /\ IF r.exc = "none"
                 THEN /\ local' = [local EXCEPT !.slide_changes = r.ret,
                                                 !.detected = TRUE]
                      /\ pc' = "align" /\ exc' = exc
                 ELSE Fail(r.exc) /\ local' = local
    /\ UNCHANGED <<cmd, run, opts, vtt, prev, called, pureVars>>

\* cli.py:227
AlignSlides ==
    /\ pc = "align"
    /\ LET r == align_transcription_with_slides(local.transcriptions,
                                                local.slide_changes)
       IN  IF r.exc = "none"
           THEN /\ local' = [local EXCEPT !.table = r]
                /\ pc' = "write" /\ exc' = exc
           ELSE Fail(r.exc) /\ local' = local
    /\ UNCHANGED <<cmd, run, opts, files, vtt, written, calls, prev, called,
                   pureVars>>

\* cli.py:230-232
WriteTable ==
    /\ pc = "write"
    /\ files' = [files EXCEPT !["csv_video"] = TRUE]
    /\ written' = written \cup {"csv_video"}
    /\ pc' = "done"
    /\ UNCHANGED <<cmd, run, opts, vtt, calls, local, exc, prev, called, pureVars>>

\* cli.py:421-428: the table of transcribe_audio_file; a frame built from
\* an empty list has no 'text' column
WriteAudioTable ==
    /\ pc = "table"
    /\ IF Len(local.transcriptions) = 0
       THEN Fail("KeyError") /\ UNCHANGED <<files, written, local>>
       ELSE /\ local' = [local EXCEPT !.table =
                            [exc |-> "none", hit |-> <<>>,
                             rows |-> [k \in 1..Len(local.transcriptions) |->
                                 [start |-> local.transcriptions[k].start,
                                  end   |-> local.transcriptions[k].end,
                                  text  |-> strip(local.transcriptions[k].text)]]]]
            /\ files' = [files EXCEPT !["csv_audio"] = TRUE]
            /\ written' = written \cup {"csv_audio"}
            /\ pc' = "done" /\ exc' = exc
    /\ UNCHANGED <<cmd, run, opts, vtt, calls, prev, called, pureVars>>

\* the command returns, or its exception reaches typer
EndRun ==
    /\ pc \in {"done", "failed"}
    /\ prev' = [cmd |-> cmd, returned |-> local.returned,
                segments |-> local.segments, detected |-> local.detected,
                slide_changes |-> local.slide_changes, table |-> local.table]
    /\ cmd' = "none" /\ pc' = "idle" /\ opts' = NoOpts
    /\ local' = NoLocals /\ exc' = "none"
    /\ written' = {} /\ calls' = NoCalls
    /\ UNCHANGED <<run, files, vtt, called, pureVars>>

Next ==
    \/ StartRun
    \/ ConvertVideo
    \/ ConvertAudio
    \/ ExtractAudio
    \/ ReadPrompt
    \/ Transcribe
    \/ WriteTranscripts
    \/ DetectSlides
    \/ AlignSlides
    \/ WriteTable
    \/ WriteAudioTable
    \/ EndRun

Spec == Init /\ [][Next]_vars

\* a step of a command that has been started: each statement is a blocking
\* call that returns or raises, so a started command goes on to its end
CommandStep ==
    \/ ConvertVideo
    \/ ConvertAudio
    \/ ExtractAudio
    \/ ReadPrompt
    \/ Transcribe
    \/ WriteTranscripts
    \/ DetectSlides
    \/ AlignSlides
    \/ WriteTable
    \/ WriteAudioTable
    \/ EndRun

FairSpec == Spec /\ WF_vars(CommandStep)

-----------------------------------------------------------------------------
(* detect_slide_changes called on its own, with any method name *)

InitDetect ==
    /\ TimeIdle /\ AlignIdle
    /\ cmd = "none" /\ pc = "idle" /\ run = 0
    /\ opts = NoOpts
    /\ files \in { [[f \in OutputFiles |-> FALSE] EXCEPT !["stats"] = b] :
                    b \in BOOLEAN }
    /\ vtt = [d \in SubtitleDirs |-> <<>>]
    /\ written = {}
    /\ calls = NoCalls
    /\ local = NoLocals
    /\ exc = "none"
    /\ prev = NoPrev
    /\ called \in [method : MethodNames, scenes : SceneLists,
                    outcome : DetectorOutcomes, exc : {"unset"}, ret : {<<>>}]

CallDetectSlideChanges ==
    /\ called.exc = "unset"
    /\ LET r == detect_slide_changes(called.method, called.scenes, called.outcome)
       IN  /\ files' = [files EXCEPT !["stats"] = @ \/ r.wrote]
           /\ written' = IF r.wrote THEN written \cup {"stats"} ELSE written
           /\ calls' = [calls EXCEPT !.detect = @ + r.ran]
           /\ called' = [called EXCEPT !.exc = r.exc, !.ret = r.ret]
    /\ UNCHANGED <<cmd, pc, run, opts, vtt, local, exc, prev, pureVars>>

SpecDetect == InitDetect /\ [][CallDetectSlideChanges]_vars

-----------------------------------------------------------------------------
(* Properties of align_transcription_with_slides (SpecAlign) *)

Aligned == df.exc # "unset"

NSlides == Len(slide_times)
NSegs   == Len(transcriptions)

SlideStart(i) == get_seconds(slide_times[i][1])
SlideEnd(i)   == get_seconds(slide_times[i][2])
SegStart(k)   == time_to_seconds(transcriptions[k].start)

\* segment k starts within slide i: start <= t < end
Within(k, i) == Le(SlideStart(i), SegStart(k)) /\ Lt(SegStart(k), SlideEnd(i))

\* the texts of the segments that start within slide i, in input order
RECURSIVE MatchingTexts(_, _)
MatchingTexts(i, k) ==
    IF k > NSegs THEN <<>>
    ELSE IF Within(k, i) THEN <<transcriptions[k].text>> \o MatchingTexts(i, k + 1)
    ELSE MatchingTexts(i, k + 1)

\* ' '.join(texts)
RECURSIVE JoinSpace(_)
JoinSpace(texts) ==
    IF Len(texts) = 0 THEN <<>>
    ELSE IF Len(texts) = 1 THEN texts[1]
    ELSE texts[1] \o <<" ">> \o JoinSpace(Tail(texts))

RECURSIVE Concat(_)
Concat(texts) == IF Len(texts) = 0 THEN <<>> ELSE texts[1] \o Concat(Tail(texts))

NoWhitespace(text) == SelectSeq(text, LAMBDA c : c \notin Whitespace)

Contiguous == \A i \in 1..(NSlides - 1) : SlideEnd(i) = SlideStart(i + 1)

\* C1: for a non-empty interval list the result has exactly one row per
\* interval, and row i carries the start and the end of interval i (as
\* timecodes in video_processing.py, as seconds in video_file.py), whatever
\* the segments are.
C1_OneRowPerInterval ==
    (Aligned /\ NSlides > 0) =>
        /\ df.exc = "none"
        /\ Len(df.rows) = NSlides
        /\ \A i \in 1..NSlides :
              /\ df.rows[i].start = get_timecode(slide_times[i][1])
              /\ df.rows[i].end = get_timecode(slide_times[i][2])
        /\ df_vf.exc = "none"
        /\ Len(df_vf.rows) = NSlides
        /\ \A i \in 1..NSlides :
              /\ df_vf.rows[i].start = SlideStart(i)
              /\ df_vf.rows[i].end = SlideEnd(i)

\* three intervals and three segments, one interval left without text and
\* one receiving two segments
C1_Witness ==
    /\ df.exc = "none" /\ df_vf.exc = "none"
    /\ NSlides = 3 /\ NSegs = 3
    /\ Len(df.rows) = 3
    /\ \E i \in 1..NSlides : df.rows[i].text = <<>>
    /\ \E k1, k2 \in 1..NSegs : k1 # k2 /\ df.hit[k1] = df.hit[k2] /\ df.hit[k1] # {}

\* C2 as stated: the text of row i is the single-space join, in input
\* order, of the texts of the segments that start within interval i.
C2_TextIsPlainJoin ==
    (Aligned /\ NSlides > 0) =>
        \A i \in 1..NSlides : df.rows[i].text = JoinSpace(MatchingTexts(i, 1))

\* C2, amended: the text of row i is that single-space join with leading
\* and trailing whitespace stripped; on the example of the specification
\* the two rows read 'A' and 'B C'.
C2_TextIsStrippedJoin ==
    (Aligned /\ NSlides > 0) =>
        /\ \A i \in 1..NSlides :
              df.rows[i].text = strip(JoinSpace(MatchingTexts(i, 1)))
        /\ (transcriptions = ExampleSegs /\ slide_times = ExampleSlides) =>
              /\ df.rows[1].text = <<"A">>
              /\ df.rows[2].text = <<"B", " ", "C">>

\* the example of the specification has been aligned
C2_Witness ==
    /\ df.exc = "none"
    /\ transcriptions = ExampleSegs /\ slide_times = ExampleSlides
    /\ df.hit = << {1}, {2}, {2}, {} >>

\* C3: a segment that starts exactly where interval i ends and interval
\* i+1 starts is appended to row i+1 and not to row i.
C3_BoundaryGoesToLater ==
    Aligned =>
        \A i \in 1..(NSlides - 1) : \A k \in 1..NSegs :
            (SlideEnd(i) = SlideStart(i + 1) /\ SegStart(k) = SlideEnd(i)) =>
                /\ df.hit[k] = {i + 1}
                /\ NSegs = 1 =>
                      /\ df.rows[i].text = <<>>
                      /\ df.rows[i + 1].text = strip(transcriptions[k].text)

C3_Witness ==
    /\ df.exc = "none"
    /\ \E i \in 1..(NSlides - 1) : \E k \in 1..NSegs :
          /\ SlideEnd(i) = SlideStart(i + 1)
          /\ SegStart(k) = SlideEnd(i)
          /\ transcriptions[k].text = <<"A">>
          /\ df.rows[i + 1].text = <<"A">>

\* the input without segment k
Without(k) ==
    [j \in 1..(NSegs - 1) |-> IF j < k THEN transcriptions[j] ELSE transcriptions[j + 1]]

Outside(k) ==
    \/ Lt(SegStart(k), SlideStart(1))
    \/ Le(SlideEnd(NSlides), SegStart(k))

\* C4: a segment that starts before the first interval, or at or after the
\* end of the last one, is appended to no row, raises nothing, and leaves
\* every row as it is without that segment.
C4_OutsideIsDropped ==
    (Aligned /\ NSlides > 0) =>
        \A k \in 1..NSegs :
            Outside(k) =>
                /\ df.exc = "none"
                /\ df.hit[k] = {}
                /\ df.rows = align_transcription_with_slides(Without(k), slide_times).rows

\* a segment before the first interval, one at the end of the last, and one
\* inside
C4_Witness ==
    /\ df.exc = "none"
    /\ NSlides > 0
    /\ \E k \in 1..NSegs : Lt(SegStart(k), SlideStart(1))
    /\ \E k \in 1..NSegs : SegStart(k) = SlideEnd(NSlides)
    /\ \E k \in 1..NSegs : df.hit[k] # {}

\* C5: every segment is appended to at most one row, a row it starts
\* within; with contiguous intervals every segment that starts within
\* [first.start, last.end) is appended to exactly one row.
C5_AtMostOneRow ==
    (Aligned /\ NSlides > 0) =>
        \A k \in 1..NSegs :
            /\ Cardinality(df.hit[k]) <= 1
            /\ \A i \in df.hit[k] : Within(k, i)
            /\ (Contiguous /\ ~Outside(k)) => Cardinality(df.hit[k]) = 1

\* three contiguous intervals and a segment on each inner boundary
C5_Witness ==
    /\ df.exc = "none"
    /\ NSlides = 3 /\ Contiguous
    /\ \E k \in 1..NSegs : SegStart(k) = SlideStart(2) /\ df.hit[k] = {2}
    /\ \E k \in 1..NSegs : SegStart(k) = SlideStart(3) /\ df.hit[k] = {3}

Trimmed(text) ==
    Len(text) > 0 => (text[1] \notin Whitespace /\ text[Len(text)] \notin Whitespace)

\* C6: no row's text starts or ends with whitespace; the matching texts
\* appear in a row in their input order; a row without a matching segment
\* holds the empty string, and nothing is raised.
C6_TrimmedOrderedText ==
    (Aligned /\ NSlides > 0) =>
        /\ df.exc = "none"
        /\ \A i \in 1..NSlides :
              /\ Trimmed(df.rows[i].text)
              /\ NoWhitespace(df.rows[i].text)
                    = NoWhitespace(Concat(MatchingTexts(i, 1)))
              /\ MatchingTexts(i, 1) = <<>> => df.rows[i].text = <<>>

\* one row receives ' B' and then 'A', another row receives nothing
C6_Witness ==
    /\ df.exc = "none"
    /\ \E i \in 1..NSlides :
          /\ MatchingTexts(i, 1) = << <<" ", "B">>, <<"A">> >>
          /\ df.rows[i].text = <<"B", " ", "A">>
    /\ \E i \in 1..NSlides : MatchingTexts(i, 1) = <<>>

\* the starts and the ends of the intervals, in seconds
SlideStarts == [i \in 1..NSlides |-> SlideStart(i)]
SlideEnds   == [i \in 1..NSlides |-> SlideEnd(i)]

\* the row the search proposes for a segment that starts at t (1-based, 0
\* when it proposes none): bisect_right over the interval starts
Candidate(starts, t) == bisect_right(starts, t)

Greatest(S) == IF S = {} THEN 0 ELSE CHOOSE i \in S : \A j \in S : j <= i

\* the intervals a scan over all of them finds to contain t
LinearScan(starts, ends, t) ==
    { i \in 1..Len(starts) : Le(starts[i], t) /\ Lt(t, ends[i]) }

C19_EmptyIntervalsEmptyTable ==
    (Aligned /\ NSlides = 0) =>
        /\ df.exc = "none"
        /\ df.rows = <<>>

\* C20: the two revisions raise alike, append every segment to the same
\* rows and end with the same text in every row; the row of interval i
\* carries the timecodes of the interval in one revision and its seconds in
\* the other.
C20_RevisionsAgree ==
    Aligned =>
        /\ df_vf.exc = df.exc
        /\ df_vf.hit = df.hit
        /\ Len(df_vf.rows) = Len(df.rows)
        /\ \A i \in 1..Len(df.rows) :
              /\ df_vf.rows[i].text = df.rows[i].text
              /\ df.rows[i].start = get_timecode(slide_times[i][1])
              /\ df.rows[i].end = get_timecode(slide_times[i][2])
              /\ df_vf.rows[i].start = get_seconds(slide_times[i][1])
              /\ df_vf.rows[i].end = get_seconds(slide_times[i][2])

\* two intervals with a gap, a segment at the end of the first, one within
\* the second, and a row with the text of two segments
C20_Witness ==
    /\ df.exc = "none" /\ df_vf.exc = "none"
    /\ NSlides = 2 /\ NSegs = 3
    /\ Lt(SlideEnd(1), SlideStart(2))
    /\ \E k \in 1..NSegs : SegStart(k) = SlideEnd(1) /\ df_vf.hit[k] = {}
    /\ \E k \in 1..NSegs : df_vf.hit[k] = {2}
    /\ \E i \in 1..NSlides : df_vf.rows[i].text = <<"A", " ", "A">>

-----------------------------------------------------------------------------
(* Properties of time_to_seconds (SpecTime) *)

Parsed == sec_a.exc # "unset"

\* the digits f1 f2 ... as a fraction of a second, in microseconds
RECURSIVE FracMicros(_, _)
FracMicros(frac, unit) ==
    IF Len(frac) = 0 THEN 0
    ELSE DigitVal(frac[1]) * unit + FracMicros(Tail(frac), unit \div 10)

ValidFields(f) == f[1] <= 23 /\ f[2] <= 59 /\ f[3] <= 59

\* the order of two timestamps: character by character, a shorter fraction
\* read as if followed by zeros
RECURSIVE LexLess(_, _)
LexLess(a, b) ==
    IF Len(a) = 0 \/ Len(b) = 0 THEN FALSE
    ELSE IF a[1] = b[1] THEN LexLess(Tail(a), Tail(b))
    ELSE a[1] \in Digit /\ b[1] \in Digit /\ DigitVal(a[1]) < DigitVal(b[1])

TimeBefore(a, b) == LexLess(PadRight(a, 9 + FracWidth), PadRight(b, 9 + FracWidth))

ExampleTime ==
    <<"0", "0", ":", "0", "1", ":", "0", "2", ".", "5", "0", "0", "0", "0", "0">>

\* C7: a timestamp HH:MM:SS.f (one to six fractional digits) maps to
\* hours*3600 + minutes*60 + seconds + microseconds/1000000;
\* '00:01:02.500000' maps to 62.5; an earlier timestamp maps to a strictly
\* smaller number.
C7_TimeToSeconds ==
    Parsed =>
        /\ \A f \in TimeFields :
              (ValidFields(f) /\ time_a = MkTimeStr(f[1], f[2], f[3], f[4])) =>
                  /\ sec_a.exc = "none"
                  /\ sec_a.value.s = f[1] * 3600 + f[2] * 60 + f[3]
                  /\ sec_a.value.us = FracMicros(f[4], 100000)
        /\ time_a = ExampleTime => sec_a.value = [s |-> 62, us |-> 500000]
        /\ (sec_a.exc = "none" /\ sec_b.exc = "none" /\ TimeBefore(time_a, time_b)) =>
              Lt(sec_a.value, sec_b.value)

\* '00:01:02.5' and '00:01:02.500000' name the same instant; '23:59:59.999999'
\* comes after the example
C7_Witness ==
    /\ sec_a.exc = "none" /\ sec_b.exc = "none"
    /\ time_a = ExampleTime
    /\ time_b = MkTimeStr(23, 59, 59, <<"9", "9", "9", "9", "9", "9">>)
    /\ TimeBefore(time_a, time_b)

-----------------------------------------------------------------------------
(* Properties of the commands (Spec) *)

\* this run and the one before are runs of split_video_file, the one
\* before got its segments from transcribe_audio, and this one does not
\* overwrite
Rerun ==
    /\ cmd = "split_video_file"
    /\ prev.cmd = "split_video_file"
    /\ prev.returned
    /\ ~opts.overwrite

AtConvertToMp4 == pc = "convert" /\ cmd \in VideoCommands /\ opts.suffix = ".mkv"
AtExtractAudio == pc = "extract"
AtConvertToWav ==
    pc = "convert" /\ cmd = "transcribe_audio_file" /\ opts.suffix \in {".mp3", ".m4a"}

\* the step of the stage that writes out: skipped when out exists and
\* overwrite is off, else one invocation of the tool
StageStep(out) ==
    IF files[out] /\ ~opts.overwrite
    THEN /\ calls'.ffmpeg = calls.ffmpeg
         /\ files' = files
         /\ written' = written
         /\ local'.ret = out
    ELSE calls'.ffmpeg = calls.ffmpeg + 1

\* C9: convert_to_mp4, extract_audio and convert_to_wav (on an mp3 or m4a
\* input) do not invoke the tool when their output exists and overwrite is
\* off, leave the file as it is and return its path; otherwise they invoke
\* the tool exactly once.
C9_TranscodeUnlessCached ==
    [][ /\ AtConvertToMp4 => (StageStep("mp4") /\ (pc' = "extract" => local'.video_path = "mp4"))
        /\ AtExtractAudio => StageStep("wav")
        /\ AtConvertToWav => StageStep("wav") ]_vars

\* a second run on an .mkv input, without overwrite, has passed both
\* transcoding stages without invoking the tool
C9_Witness ==
    /\ run = 2
    /\ cmd \in VideoCommands /\ opts.suffix = ".mkv" /\ ~opts.overwrite
    /\ pc = "prompt"
    /\ calls.ffmpeg = 0
    /\ files["mp4"] /\ files["wav"]
    /\ written = {}
    /\ local.video_path = "mp4" /\ local.ret = "wav"

SplitRun == cmd = "split_video_file"

\* the statement a run of split_video_file may go to from each statement
StageSucc ==
    { <<"convert", "extract">>, <<"convert", "failed">>,
      <<"extract", "prompt">>, <<"extract", "failed">>,
      <<"prompt", "transcribe">>,
      <<"transcribe", "write_transcripts">>, <<"transcribe", "failed">>,
      <<"write_transcripts", "detect">>,
      <<"detect", "align">>, <<"detect", "failed">>,
      <<"align", "write">>, <<"align", "failed">>,
      <<"write", "done">>,
      <<"done", "idle">>, <<"failed", "idle">> }

\* what a stage has done tells that the stage before it had returned
StagesSoFar ==
    SplitRun =>
        /\ "mp4" \in written => opts.suffix = ".mkv"
        /\ ("wav" \in written /\ opts.suffix = ".mkv") => local.video_path = "mp4"
        /\ calls.load_model > 0 => local.ret = "wav"
        /\ (calls.detect > 0 \/ "stats" \in written) => local.returned
        /\ local.detected => local.returned
        /\ local.table.exc = "none" => local.detected
        /\ "csv_video" \in written => (local.table.exc = "none" /\ exc = "none")
        /\ exc # "none" <=> pc = "failed"
        /\ pc = "failed" => "csv_video" \notin written

\* a step of a run: the next statement in order, no conversion of an input
\* that is not .mkv, and after a failure nothing but the end of the run
StageInOrder ==
    SplitRun =>
        /\ <<pc, pc'>> \in StageSucc
        /\ (pc = "convert" /\ opts.suffix # ".mkv") =>
              (pc' = "extract" /\ calls' = calls /\ files' = files)
        /\ pc = "failed" =>
              (files' = files /\ vtt' = vtt /\ calls' = NoCalls /\ written' = {})

\* C11: a run of split_video_file goes convert (for an .mkv input only),
\* extract audio, transcribe, detect slides, align, write table, each stage
\* after the one before it has returned; a stage that fails ends the run:
\* no later stage is executed and the run writes no final table.
C11_StagesInOrder == []StagesSoFar /\ [][StageInOrder]_vars

\* a run that wrote its table, followed by a run on an .mkv input whose
\* detector failed after the transcript had been returned
C11_Witness ==
    /\ SplitRun /\ opts.suffix = ".mkv"
    /\ prev.cmd = "split_video_file" /\ prev.table.exc = "none"
    /\ pc = "failed" /\ exc = "RuntimeError"
    /\ local.returned /\ calls.detect = 1
    /\ local.video_path = "mp4"
    /\ "csv_video" \notin written

\* the errors of the transcoder, the speech model and the scene detector
CollaboratorErrors == {"CalledProcessError", "RuntimeError", "VideoOpenFailure"}

\* C12 as stated: every run of split_video_file in which no collaborator
\* fails reaches the write step and writes the final table.
C12_SplitRunEmitsTable ==
    \A n \in 1..MaxRuns :
        (run = n /\ SplitRun /\ pc = "convert")
            ~> (run = n /\ SplitRun
                  /\ \/ pc = "done" /\ "csv_video" \in written
                     \/ pc = "failed" /\ exc \in CollaboratorErrors)

\* C14 as stated: in a run of split_video_file without overwrite, after a
\* run that wrote the final table, slide detection is not run and neither
\* the statistics file nor the table is written.
C14_RerunSkipsDetection ==
    (SplitRun /\ ~opts.overwrite /\ files["csv_video"]
       /\ prev.cmd = "split_video_file" /\ prev.table.exc = "none") =>
        /\ calls.detect = 0
        /\ "stats" \notin written
        /\ "csv_video" \notin written

\* C15: whether transcribe_audio reads the subtitle file depends on the
\* overwrite flag and on the file being there, and the file is the same
\* for both video commands and every input of one stem: a run without
\* overwrite, after a run of either video command that returned segments,
\* returns those segments without calling the model; and a run that did not
\* write the subtitle file ran without overwrite and returns what the file
\* holds.
C15_ReuseByExistenceOnly ==
    (cmd # "none" /\ local.returned) =>
        LET d == SubtitleDir(cmd)
        IN  /\ (~opts.overwrite /\ prev.returned /\ SubtitleDir(prev.cmd) = d) =>
                  /\ calls.transcribe = 0
                  /\ d \notin written
                  /\ local.trans_res = None
                  /\ local.segments = prev.segments
            /\ d \notin written =>
                  /\ ~opts.overwrite
                  /\ calls.transcribe = 0
                  /\ local.segments = read_vtt(vtt[d])

\* transcribe_video_file wrote two cues; split_video_file, on an .mkv
\* input, returns them from the file
C15_Witness ==
    /\ prev.cmd = "transcribe_video_file" /\ prev.returned
    /\ SplitRun /\ opts.suffix = ".mkv" /\ ~opts.overwrite
    /\ local.returned
    /\ Len(local.segments) = 2
    /\ local.segments = prev.segments
    /\ calls.transcribe = 0 /\ calls.load_model = 1

\* the files of the transcription stage of the running command
TranscriptFiles == {SubtitleDir(cmd), TxtFile(cmd), JsonFile(cmd)}

\* the transcription stage is about to read the subtitle file back, or has
\* done so
ReadsCache ==
    \/ pc = "transcribe" /\ ~opts.overwrite /\ files[SubtitleDir(cmd)]
    \/ pc = "write_transcripts" /\ local.trans_res.none

\* C16: in each command the text and JSON transcripts are written only in
\* a run in which the model transcribed and the subtitle file was written;
\* in a run that reads the subtitle file back, the transcription stage
\* writes no file and leaves the three transcripts as they are.
C16_TranscriptsOnlyWhenTranscribed ==
    /\ [](cmd # "none" =>
            /\ (TxtFile(cmd) \in written \/ JsonFile(cmd) \in written) =>
                  /\ SubtitleDir(cmd) \in written
                  /\ calls.transcribe = 1
                  /\ ~local.trans_res.none
            /\ (local.returned /\ local.trans_res.none) =>
                  /\ written \cap TranscriptFiles = {}
                  /\ calls.transcribe = 0)
    /\ [][(cmd # "none" /\ ReadsCache) =>
            (files' = files /\ vtt' = vtt /\ written' = written)]_vars

\* transcribe_audio_file has ended a run that read the subtitle file back:
\* the three transcripts are there from the run before, none written now
C16_Witness ==
    /\ cmd = "transcribe_audio_file" /\ pc = "done"
    /\ local.returned /\ local.trans_res.none
    /\ Len(local.segments) = 2
    /\ \A f \in TranscriptFiles : files[f]
    /\ written \cap TranscriptFiles = {}

\* C17 as stated: with no prompt path the command reaches the call of
\* transcribe_audio with an empty initial prompt; the prompt is what was
\* read from the file only when a path was given.
C17_DefaultPromptIsEmpty ==
    cmd # "none" =>
        /\ pc = "transcribe" => local.initial_prompt \in {"", "read"}
        /\ exc # "UnboundLocalError"

\* C18 as stated: the segments split_video_file hands to the alignment are
\* (start, end, text) tuples, and with a non-empty transcript the align step
\* ends without an error.
C18_SegmentsAreTuples ==
    (SplitRun /\ local.detected /\ Len(local.transcriptions) > 0) =>
        /\ \A k \in 1..Len(local.transcriptions) :
              local.transcriptions[k].shape = "tuple"
        /\ exc = "none"

-----------------------------------------------------------------------------
(* Properties of detect_slide_changes (SpecDetect) *)

InvalidMethodCalled == called.exc # "unset" /\ called.method \notin DetectionMethod

\* C10 as stated: a call with a method name that is none of the five fails
\* with the invalid-method error, without detection, statistics file or
\* interval list.
C10_InvalidMethodError ==
    InvalidMethodCalled =>
        /\ called.exc = "ValueError"
        /\ calls.detect = 0
        /\ "stats" \notin written
        /\ called.ret = <<>>

\* C10, amended: such a call fails without detection, statistics file or
\* interval list; the error is the invalid-method error whenever the video
\* could be opened, and the error of opening it otherwise.
C10_InvalidMethodFails ==
    InvalidMethodCalled =>
        /\ called.exc \in {"ValueError", "VideoOpenFailure"}
        /\ called.exc = "ValueError" <=> called.outcome # "open_fail"
        /\ calls.detect = 0
        /\ "stats" \notin written
        /\ called.ret = <<>>

\* the invalid name on a video that would have yielded two scenes
C10_Witness ==
    /\ called.method = "ssim"
    /\ called.outcome = "ok"
    /\ called.scenes = ExampleSlides
    /\ called.exc = "ValueError"
    /\ ~files["stats"]

====
